---- MODULE Spec2Model ----
(***************************************************************************)
(* Model of the system-audio capture coordinator (audio/capture/system.rs), *)
(* the Linux device enumerator (audio/devices/platform/linux.rs) and the    *)
(* Groq transcription adapter (audio/transcription/groq_provider.rs).       *)
(*                                                                          *)
(* Sample values (f32) are represented exactly as integer numerators over   *)
(* FloatOne: the float x is the integer x * FloatOne.                       *)
(* Device names are sequences of one-character strings.                     *)
(***************************************************************************)
EXTENDS Integers, Sequences, FiniteSets, TLC

VARIABLES
    platform,        \* target_os the binary was built for
    pc,              \* position inside start_system_audio_capture
    startResult,     \* "none", "Ok" or the error it returned
    enumerated,      \* result of host.input_devices() inside the lookup
    monitor_device,  \* Option<Device> of the lookup
    config,          \* negotiated sample format, "none" before negotiation
    tx, rx,          \* the two ends of the unbounded sample channel
    drop_tx, drop_rx,\* the two ends of the std::sync::mpsc stop channel
    chan,            \* chunks queued in the sample channel
    dropChan,        \* stop messages queued in the stop channel
    stream,          \* native stream (cpal::Stream / CoreAudioStream)
    session,         \* the SystemAudioStream and the progress of its drop
    task,            \* position of the macOS forwarding task
    buffer,          \* the forwarding task's buffer
    tapLen,          \* number of samples the tap yields before it ends
    nProduced,       \* native samples produced so far
    nCallbacks,      \* data callback invocations so far (Linux)
    cb,              \* position of the Linux data callback
    cbData,          \* the native slice of the callback in progress
    flat,            \* flatten(): rest of the chunk being iterated
    received,        \* samples the consumer got from poll_next
    eos,             \* poll_next has returned Ready(None)
    stopSends,       \* number of drop_tx.send(()) calls made
    stopResult,      \* what the last drop_tx.send(()) returned
    panicked,        \* some thread panicked
    errLogged,       \* mid-stream errors printed by the error callback
    nativeEnded,     \* the native stream will deliver nothing more
    host_inputs,     \* configure_linux_audio: what host.input_devices() gives
    audio_devices,   \* configure_linux_audio: the returned Vec<AudioDevice>
    epc,             \* configure_linux_audio: "idle", "called" or "returned"
    audio,           \* transcribe: the f32 samples passed in
    language,        \* transcribe: Option<String>
    gpc,             \* transcribe: position inside the call
    wav,             \* transcribe: <<the encoded WAV>>, <<>> before encoding
    form,            \* transcribe: fields of the multipart form
    requests,        \* transcribe: HTTP requests sent
    response,        \* transcribe: <<the HTTP response>>, <<>> before it arrives
    result           \* transcribe: <<the returned Result>>, <<>> before

capVars == <<platform, pc, startResult, enumerated, monitor_device, config,
             tx, rx, drop_tx, drop_rx, chan, dropChan, stream, session,
             task, buffer, tapLen, nProduced, nCallbacks, cb, cbData,
             flat, received, eos, stopSends, stopResult, panicked,
             errLogged, nativeEnded>>

enumVars == <<host_inputs, audio_devices, epc>>

groqVars == <<audio, language, gpc, wav, form, requests, response, result>>

vars == <<capVars, enumVars, groqVars>>

----------------------------------------------------------------------------
(* Bounds of the model *)
MaxDevices == 3
MaxCallbacks == 3
MaxChunkLen == 2
MaxErrors == 1

MaxBatchLen == 2

(* Program constants *)
chunk_size == 1024
WavScale == 32767
I16Min == -32768
I16Max == 32767
WavSampleRate == 16000

----------------------------------------------------------------------------
(* Strings: to_lowercase and contains on sequences of characters *)

Upper == <<"A","B","C","D","E","F","G","H","I","J","K","L","M",
           "N","O","P","Q","R","S","T","U","V","W","X","Y","Z">>
Lower == <<"a","b","c","d","e","f","g","h","i","j","k","l","m",
           "n","o","p","q","r","s","t","u","v","w","x","y","z">>

ToLowerChar(c) ==
    IF \E i \in 1..Len(Upper) : Upper[i] = c
    THEN Lower[CHOOSE i \in 1..Len(Upper) : Upper[i] = c]
    ELSE c

to_lowercase(s) == [i \in 1..Len(s) |-> ToLowerChar(s[i])]

contains(s, sub) ==
    \E i \in 0..(Len(s) - Len(sub)) : SubSeq(s, i + 1, i + Len(sub)) = sub

StrMonitor == <<"m","o","n","i","t","o","r">>
StrAnalog == <<"a","n","a","l","o","g">>
StrSystemAudioSuffix ==
    <<" ","(","S","y","s","t","e","m"," ","A","u","d","i","o",")">>
StrBuiltIn ==
    <<"B","u","i","l","t","-","i","n"," ","A","u","d","i","o">>
        \o StrSystemAudioSuffix

(* Device names the host may advertise *)
NameUsbMic == <<"U","S","B"," ","M","i","c">>
NameLoopMon ==
    <<"h","w",":","L","o","o","p","b","a","c","k",",","m","o","n","i","t","o","r">>
NameAnalogMon ==
    <<"a","l","s","a","_","o","u","t","p","u","t",".","a","n","a","l","o","g",
      "-","s","t","e","r","e","o",".","m","o","n","i","t","o","r">>
NameUpperMon == <<"H","D","M","I"," ","M","o","n","i","t","o","r">>
NameUpperAnalogMon ==
    <<"A","N","A","L","O","G",".","M","O","N","I","T","O","R">>

(* A device: device.name() is Ok(name) or Err *)
Device(n) == [readable |-> TRUE, name |-> n]
UnreadableDevice == [readable |-> FALSE, name |-> <<>>]

Devices ==
    { Device(NameUsbMic), Device(NameLoopMon), Device(NameAnalogMon),
      Device(NameUpperMon), Device(NameUpperAnalogMon), UnreadableDevice }

DeviceLists == UNION { [1..n -> Devices] : n \in 0..MaxDevices }

----------------------------------------------------------------------------
(* Samples *)

I16Divisor == 32768
U16Offset == 32768
U16Divisor == 32768

(* The representation of the f32 value 1.0 *)
FloatOne == 2^15

SampleFormats == {"F32", "I16", "U16", "U8"}

(* data.to_vec(): f32 samples pass through unchanged *)
ConvertF32(s) == s

(* s as f32 / 32768.0 *)
ConvertI16(s) == (s * FloatOne) \div I16Divisor

(* Mutant: the unsigned samples are scaled without being re-centred *)
ConvertU16NoOffset(s) == (s * FloatOne) \div U16Divisor

(* (s as f32 - 32768.0) / 32768.0 *)
ConvertU16(s) == ((s - U16Offset) * FloatOne) \div U16Divisor

ConvertSample(fmt, s) ==
    CASE fmt = "F32" -> ConvertF32(s)
      [] fmt = "I16" -> ConvertI16(s)
      [] fmt = "U16" -> ConvertU16(s)

(* data.iter().map(..).collect(): element by element *)
ConvertChunk(fmt, data) == [j \in 1..Len(data) |-> ConvertSample(fmt, data[j])]

(* The i-th sample the native side produces: a fixed signal with pairwise
   distinct values, starting at the extremes of the native format. *)
NativeSample(fmt, i) ==
    CASE fmt = "I16" -> (IF i = 1 THEN -32768 ELSE IF i = 2 THEN 32767 ELSE i - 3)
      [] fmt = "U16" -> (IF i = 1 THEN 0 ELSE IF i = 2 THEN 65535 ELSE 32765 + i)
      [] OTHER       -> (IF i = 1 THEN -FloatOne
                         ELSE IF i = 2 THEN (3 * FloatOne) \div 2 ELSE i - 3)

(* The i-th f32 sample the Core Audio tap yields *)
TapSample(i) == NativeSample("F32", i)

(* Lengths of the tap's sample sequence: around the chunk boundary *)
TapLens == {0, 1, chunk_size, chunk_size + 1}

----------------------------------------------------------------------------
(* Channels *)

(* futures_channel::mpsc::UnboundedSender::unbounded_send: fails once the
   receiver is gone, never blocks, never discards *)
SendOk == rx = "alive"

(* Mutant: a channel of capacity one, which discards the oldest queued chunk
   to make room for the new one *)
bounded_send(q, chunk) ==
    IF SendOk THEN (IF q = <<>> THEN <<chunk>> ELSE Append(Tail(q), chunk))
    ELSE q

unbounded_send(q, chunk) == IF SendOk THEN Append(q, chunk) ELSE q

(* std::sync::mpsc::Receiver::try_recv().is_ok() *)
try_recv_is_ok == dropChan > 0

(* std::sync::mpsc::Sender::send(()): Err once the receiver is gone *)
StopSendResult == IF drop_rx = "alive" THEN "Ok" ELSE "Err"

(* Mutant: the Result of a send is unwrapped, which panics on Err *)
UnwrapSendResult(r) == r = "Err"

(* `let _ = ...`: the Result of a send is discarded, never unwrapped *)
IgnoreSendResult(r) == FALSE

----------------------------------------------------------------------------
(* Monitor lookup of the Linux backend *)

IsMonitor(d) == d.readable /\ contains(to_lowercase(d.name), StrMonitor)

(* Mutant: the loop has no `break`, so the last monitor wins *)
RECURSIVE LastMonitor(_)
LastMonitor(devs) ==
    IF devs = <<>> THEN <<>>
    ELSE IF LastMonitor(Tail(devs)) # <<>> THEN LastMonitor(Tail(devs))
    ELSE IF IsMonitor(Head(devs)) THEN <<Head(devs)>>
    ELSE <<>>

RECURSIVE FirstMonitor(_)
FirstMonitor(devs) ==
    IF devs = <<>> THEN <<>>
    ELSE IF IsMonitor(Head(devs)) THEN <<Head(devs)>>
    ELSE FirstMonitor(Tail(devs))

----------------------------------------------------------------------------
(* start_system_audio_capture *)

EnumIdle ==
    /\ host_inputs = [ok |-> TRUE, devices |-> <<>>]
    /\ audio_devices = <<>>
    /\ epc = "idle"

GroqIdle ==
    /\ audio = <<>>
    /\ language = <<>>
    /\ gpc = "idle"
    /\ wav = <<>>
    /\ form = <<>>
    /\ requests = 0
    /\ response = <<>>
    /\ result = <<>>

Init ==
    /\ EnumIdle /\ GroqIdle
    /\ platform \in {"macos", "linux", "other"}
    /\ pc = "Idle"
    /\ startResult = "none"
    /\ enumerated = <<>>
    /\ monitor_device = <<>>
    /\ config = "none"
    /\ tx = "none" /\ rx = "none" /\ drop_tx = "none" /\ drop_rx = "none"
    /\ chan = <<>>
    /\ dropChan = 0
    /\ stream = "none"
    /\ session = "none"
    /\ task = "none"
    /\ buffer = <<>>
    /\ tapLen \in (IF platform = "macos" THEN TapLens ELSE {0})
    /\ nProduced = 0
    /\ nCallbacks = 0
    /\ cb = "idle"
    /\ cbData = <<>>
    /\ flat = <<>>
    /\ received = <<>>
    /\ eos = FALSE
    /\ stopSends = 0
    /\ stopResult = "none"
    /\ panicked = FALSE
    /\ errLogged = 0
    /\ nativeEnded = FALSE

(* Mutant: what was set up is leaked instead of dropped *)
Leaked(x) == x

(* Returning Err(..) from start_system_audio_capture: every local is
   dropped, so whatever was set up so far is released. *)
Released(x) == IF x = "none" THEN "none" ELSE "dropped"

Fail(err) ==
    /\ pc' = "Done"
    /\ startResult' = err
    /\ tx' = Released(tx) /\ rx' = Released(rx)
    /\ drop_tx' = Released(drop_tx) /\ drop_rx' = Released(drop_rx)
    /\ stream' = Released(stream)
    /\ chan' = <<>>
    /\ dropChan' = 0
    /\ UNCHANGED <<enumVars, groqVars, platform, enumerated, monitor_device, config, session,
                   task, buffer, tapLen, nProduced, nCallbacks, cb, cbData,
                   flat, received, eos, stopSends, stopResult, panicked,
                   errLogged, nativeEnded>>

(* macOS: CoreAudioCapture::new()?, .stream()?, the two channels, the spawned
   forwarding task and the returned SystemAudioStream *)
MacStart ==
    /\ platform = "macos" /\ pc = "Idle"
    /\ \E tapOk \in BOOLEAN :
         IF tapOk
         THEN /\ pc' = "Done"
              /\ startResult' = "Ok"
              /\ tx' = "alive" /\ rx' = "alive"
              /\ drop_tx' = "alive" /\ drop_rx' = "alive"
              /\ stream' = "playing"
              /\ task' = "check"
              /\ session' = "live"
              /\ UNCHANGED <<enumVars, groqVars, platform, enumerated, monitor_device, config,
                             chan, dropChan, buffer, tapLen, nProduced,
                             nCallbacks, cb, cbData, flat, received, eos,
                             stopSends, stopResult, panicked, errLogged,
                             nativeEnded>>
         ELSE Fail("CoreAudioError")

(* Linux: host.input_devices() and the search for the first monitor *)
LinuxLookup ==
    /\ platform = "linux" /\ pc = "Idle"
    /\ \E enumOk \in BOOLEAN, devs \in DeviceLists :
         /\ enumOk \/ devs = <<>>
         /\ enumerated' = devs
         /\ monitor_device' = IF enumOk THEN FirstMonitor(devs) ELSE <<>>
    /\ pc' = "looked_up"
    /\ UNCHANGED <<enumVars, groqVars, platform, startResult, config, tx, rx, drop_tx, drop_rx,
                   chan, dropChan, stream, session, task, buffer, tapLen,
                   nProduced, nCallbacks, cb, cbData, flat, received, eos,
                   stopSends, stopResult, panicked, errLogged, nativeEnded>>

(* Mutant: without a monitor the default input device is used instead *)
LinuxRequireDeviceFallback ==
    /\ pc = "looked_up"
    /\ pc' = "have_device"
    /\ enumerated' = <<>>
    /\ monitor_device' = IF monitor_device = <<>> THEN <<Device(NameUsbMic)>>
                         ELSE monitor_device
    /\ UNCHANGED <<enumVars, groqVars, platform, startResult, config, tx, rx,
                   drop_tx, drop_rx, chan, dropChan, stream, session, task,
                   buffer, tapLen, nProduced, nCallbacks, cb, cbData, flat,
                   received, eos, stopSends, stopResult, panicked, errLogged,
                   nativeEnded>>

(* monitor_device.ok_or_else(..)? *)
LinuxRequireDevice ==
    /\ pc = "looked_up"
    /\ IF monitor_device = <<>>
       THEN Fail("NoMonitorDeviceFound")
       ELSE /\ pc' = "have_device"
            /\ enumerated' = <<>>
            /\ UNCHANGED <<enumVars, groqVars, platform, startResult, monitor_device,
                           config, tx, rx, drop_tx, drop_rx, chan, dropChan,
                           stream, session, task, buffer, tapLen, nProduced,
                           nCallbacks, cb, cbData, flat, received, eos,
                           stopSends, stopResult, panicked, errLogged,
                           nativeEnded>>

(* device.default_input_config()?, then the two channels *)
LinuxConfig ==
    /\ pc = "have_device"
    /\ \E r \in SampleFormats \cup {"Err"} :
         IF r = "Err"
         THEN Fail("DeviceConfigError")
         ELSE /\ pc' = "negotiated"
              /\ config' = r
              /\ tx' = "alive" /\ rx' = "alive"
              /\ drop_tx' = "alive" /\ drop_rx' = "alive"
              /\ UNCHANGED <<enumVars, groqVars, platform, startResult, enumerated,
                             monitor_device, chan,
                             dropChan, stream, session, task, buffer, tapLen,
                             nProduced, nCallbacks, cb, cbData, flat,
                             received, eos, stopSends, stopResult, panicked,
                             errLogged, nativeEnded>>

(* match config.sample_format() { .. build_input_stream(..) .. }? *)
LinuxBuild ==
    /\ pc = "negotiated"
    /\ IF config \notin {"F32", "I16", "U16"}
       THEN Fail("UnsupportedSampleFormat")
       ELSE \E buildOk \in BOOLEAN :
              IF buildOk
              THEN /\ pc' = "built"
                   /\ stream' = "built"
                   /\ UNCHANGED <<enumVars, groqVars, platform, startResult, enumerated,
                                  monitor_device, config, tx, rx, drop_tx,
                                  drop_rx, chan, dropChan, session, task,
                                  buffer, tapLen, nProduced, nCallbacks, cb,
                                  cbData, flat, received, eos, stopSends,
                                  stopResult, panicked, errLogged,
                                  nativeEnded>>
              ELSE Fail("StreamBuildError")

(* Mutant: the result of stream.play() is not checked *)
LinuxPlayUnchecked ==
    /\ pc = "built"
    /\ \E playOk \in BOOLEAN :
         /\ pc' = "playing"
         /\ stream' = IF playOk THEN "playing" ELSE stream
    /\ UNCHANGED <<enumVars, groqVars, platform, startResult, enumerated,
                   monitor_device, config, tx, rx, drop_tx, drop_rx, chan,
                   dropChan, session, task, buffer, tapLen, nProduced,
                   nCallbacks, cb, cbData, flat, received, eos, stopSends,
                   stopResult, panicked, errLogged, nativeEnded>>

(* stream.play()? *)
LinuxPlay ==
    /\ pc = "built"
    /\ \E playOk \in BOOLEAN :
         IF playOk
         THEN /\ pc' = "playing"
              /\ stream' = "playing"
              /\ UNCHANGED <<enumVars, groqVars, platform, startResult, enumerated,
                             monitor_device, config, tx, rx, drop_tx,
                             drop_rx, chan, dropChan, session, task, buffer,
                             tapLen, nProduced, nCallbacks, cb, cbData, flat,
                             received, eos, stopSends, stopResult, panicked,
                             errLogged, nativeEnded>>
         ELSE Fail("StreamStartError")

(* Mutant: the session is built with `_stream: None`, so the native stream
   is dropped, with its callbacks, when the function returns *)
LinuxReturnStreamNotKept ==
    /\ pc = "playing"
    /\ pc' = "Done"
    /\ startResult' = "Ok"
    /\ session' = "live"
    /\ monitor_device' = <<>>
    /\ stream' = "dropped"
    /\ tx' = "dropped"
    /\ drop_rx' = "dropped"
    /\ UNCHANGED <<enumVars, groqVars, platform, enumerated, config, rx,
                   drop_tx, chan, dropChan, task, buffer, tapLen, nProduced,
                   nCallbacks, cb, cbData, flat, received, eos, stopSends,
                   stopResult, panicked, errLogged, nativeEnded>>

(* Ok(SystemAudioStream { drop_tx, sample_rate, receiver, _stream }) *)
LinuxReturn ==
    /\ pc = "playing"
    /\ pc' = "Done"
    /\ startResult' = "Ok"
    /\ session' = "live"
    /\ monitor_device' = <<>>
    /\ UNCHANGED <<enumVars, groqVars, platform, enumerated, config, tx, rx, drop_tx, drop_rx,
                   chan, dropChan, stream, task, buffer, tapLen, nProduced,
                   nCallbacks, cb, cbData, flat, received, eos, stopSends,
                   stopResult, panicked, errLogged, nativeEnded>>

(* any other platform: anyhow::bail!(..) *)
OtherStart ==
    /\ platform = "other" /\ pc = "Idle"
    /\ Fail("PlatformUnsupported")

----------------------------------------------------------------------------
(* macOS forwarding task *)

(* Mutant: the task ends without sending the trailing batch *)
TaskFinishNoFlush(buf) ==
    /\ chan' = chan
    /\ panicked' = panicked
    /\ buffer' = <<>>
    /\ task' = "done"
    /\ tx' = "dropped"
    /\ drop_rx' = "dropped"
    /\ stream' = "dropped"

(* Leaving the loop: the trailing batch is sent if it is not empty, then the
   task ends and drops tx, drop_rx and the Core Audio stream it owns. *)
TaskFinish(buf) ==
    /\ chan' = IF buf # <<>> THEN unbounded_send(chan, buf) ELSE chan
    /\ panicked' = (panicked \/
                    (buf # <<>> /\ IgnoreSendResult(IF SendOk THEN "Ok" ELSE "Err")))
    /\ buffer' = <<>>
    /\ task' = "done"
    /\ tx' = "dropped"
    /\ drop_rx' = "dropped"
    /\ stream' = "dropped"

(* if drop_rx.try_recv().is_ok() { break; } *)
TaskCheck ==
    /\ task = "check"
    /\ IF try_recv_is_ok
       THEN /\ TaskFinish(buffer)
            /\ dropChan' = 0
            /\ UNCHANGED <<nProduced>>
       ELSE /\ task' = "await"
            /\ UNCHANGED <<chan, panicked, buffer, tx, drop_rx, stream,
                           dropChan, nProduced>>
    /\ UNCHANGED <<enumVars, groqVars, platform, pc, startResult, enumerated, monitor_device,
                   config, rx, drop_tx, session, tapLen, nCallbacks, cb,
                   cbData, flat, received, eos, stopSends, stopResult,
                   errLogged, nativeEnded>>

(* Mutant: the buffer is not cleared after a chunk was sent *)
TaskNextSomeNoClear ==
    /\ task = "await"
    /\ nProduced < tapLen
    /\ nProduced' = nProduced + 1
    /\ LET buf == Append(buffer, TapSample(nProduced + 1)) IN
         IF Len(buf) >= chunk_size
         THEN IF SendOk
              THEN /\ chan' = unbounded_send(chan, buf)
                   /\ buffer' = buf
                   /\ task' = "check"
                   /\ UNCHANGED <<panicked, tx, drop_rx, stream, dropChan>>
              ELSE /\ TaskFinish(buf)
                   /\ dropChan' = 0
         ELSE /\ buffer' = buf
              /\ task' = "check"
              /\ UNCHANGED <<chan, panicked, tx, drop_rx, stream, dropChan>>
    /\ UNCHANGED <<enumVars, groqVars, platform, pc, startResult, enumerated,
                   monitor_device, config, rx, drop_tx, session, tapLen,
                   nCallbacks, cb, cbData, flat, received, eos, stopSends,
                   stopResult, errLogged, nativeEnded>>

(* stream.next().await yields Some(sample) *)
TaskNextSome ==
    /\ task = "await"
    /\ nProduced < tapLen
    /\ nProduced' = nProduced + 1
    /\ LET buf == Append(buffer, TapSample(nProduced + 1)) IN
         IF Len(buf) >= chunk_size
         THEN IF SendOk
              THEN /\ chan' = unbounded_send(chan, buf)
                   /\ buffer' = <<>>
                   /\ task' = "check"
                   /\ UNCHANGED <<panicked, tx, drop_rx, stream, dropChan>>
              ELSE /\ TaskFinish(buf)
                   /\ dropChan' = 0
         ELSE /\ buffer' = buf
              /\ task' = "check"
              /\ UNCHANGED <<chan, panicked, tx, drop_rx, stream, dropChan>>
    /\ UNCHANGED <<enumVars, groqVars, platform, pc, startResult, enumerated, monitor_device,
                   config, rx, drop_tx, session, tapLen, nCallbacks, cb,
                   cbData, flat, received, eos, stopSends, stopResult,
                   errLogged, nativeEnded>>

(* stream.next().await yields None: the tap has ended *)
TaskNextNone ==
    /\ task = "await"
    /\ nProduced = tapLen
    /\ TaskFinish(buffer)
    /\ dropChan' = 0
    /\ UNCHANGED <<enumVars, groqVars, platform, pc, startResult, enumerated, monitor_device,
                   config, rx, drop_tx, session, tapLen, nProduced,
                   nCallbacks, cb, cbData, flat, received, eos, stopSends,
                   stopResult, errLogged, nativeEnded>>

----------------------------------------------------------------------------
(* Linux callbacks, run by the native stream's thread *)

(* The data callback is entered with a slice of native samples and checks
   the stop channel: if drop_rx.try_recv().is_ok() { return; } *)
CallbackCheck ==
    /\ platform = "linux" /\ stream = "playing" /\ cb = "idle"
    /\ ~nativeEnded
    /\ nCallbacks < MaxCallbacks
    /\ nCallbacks' = nCallbacks + 1
    /\ \E len \in 1..MaxChunkLen :
         /\ nProduced' = nProduced + len
         /\ IF try_recv_is_ok
            THEN /\ dropChan' = dropChan - 1
                 /\ UNCHANGED <<cb, cbData>>
            ELSE /\ cb' = "send"
                 /\ cbData' = [j \in 1..len |-> NativeSample(config, nProduced + j)]
                 /\ UNCHANGED dropChan
    /\ UNCHANGED <<enumVars, groqVars, platform, pc, startResult, enumerated, monitor_device,
                   config, tx, rx, drop_tx, drop_rx, chan, stream, session,
                   task, buffer, tapLen, flat, received, eos, stopSends,
                   stopResult, panicked, errLogged, nativeEnded>>

(* let _ = tx.unbounded_send(<converted samples>); *)
CallbackSend ==
    /\ cb = "send"
    /\ chan' = unbounded_send(chan, ConvertChunk(config, cbData))
    /\ panicked' = (panicked \/ IgnoreSendResult(IF SendOk THEN "Ok" ELSE "Err"))
    /\ cb' = "idle"
    /\ cbData' = <<>>
    /\ UNCHANGED <<enumVars, groqVars, platform, pc, startResult, enumerated, monitor_device,
                   config, tx, rx, drop_tx, drop_rx, dropChan, stream,
                   session, task, buffer, tapLen, nProduced, nCallbacks,
                   flat, received, eos, stopSends, stopResult, errLogged,
                   nativeEnded>>

(* The error callback: |err| eprintln!("Stream error: {}", err). After a
   fatal error the device delivers nothing more. *)
StreamError ==
    /\ platform = "linux" /\ stream = "playing" /\ cb = "idle"
    /\ ~nativeEnded
    /\ errLogged < MaxErrors
    /\ errLogged' = errLogged + 1
    /\ \E fatal \in BOOLEAN : nativeEnded' = fatal
    /\ UNCHANGED <<enumVars, groqVars, platform, pc, startResult, enumerated, monitor_device,
                   config, tx, rx, drop_tx, drop_rx, chan, dropChan, stream,
                   session, task, buffer, tapLen, nProduced, nCallbacks, cb,
                   cbData, flat, received, eos, stopSends, stopResult,
                   panicked>>

----------------------------------------------------------------------------
(* The consumer: SystemAudioStream::poll_next over rx.map(iter).flatten() *)

RECURSIVE SkipEmpty(_)
SkipEmpty(q) ==
    IF q = <<>> THEN <<>>
    ELSE IF Head(q) = <<>> THEN SkipEmpty(Tail(q))
    ELSE q

(* The channel's receiver ends once it is empty and every sender is gone *)
ReceiverEnded == tx # "alive"

PollNext ==
    /\ session = "live"
    /\ IF flat # <<>>
       THEN /\ received' = Append(received, Head(flat))
            /\ flat' = Tail(flat)
            /\ UNCHANGED <<chan, eos>>
       ELSE LET q == SkipEmpty(chan) IN
            IF q # <<>>
            THEN /\ received' = Append(received, Head(Head(q)))
                 /\ flat' = Tail(Head(q))
                 /\ chan' = Tail(q)
                 /\ UNCHANGED eos
            ELSE /\ chan' = <<>>
                 /\ eos' = (eos \/ ReceiverEnded)
                 /\ UNCHANGED <<received, flat>>
    /\ UNCHANGED <<enumVars, groqVars, platform, pc, startResult, enumerated, monitor_device,
                   config, tx, rx, drop_tx, drop_rx, dropChan, stream,
                   session, task, buffer, tapLen, nProduced, nCallbacks, cb,
                   cbData, stopSends, stopResult, panicked, errLogged,
                   nativeEnded>>

----------------------------------------------------------------------------
(* Dropping the SystemAudioStream: Drop::drop, then its fields in the order
   of their declaration: drop_tx, sample_rate, receiver, _stream *)

(* Mutant: the stop channel is a rendezvous channel, whose send waits for
   the other side to be receiving *)
DropSessionBlocking ==
    /\ session = "live"
    /\ task = "check" \/ (platform = "linux" /\ cb = "idle" /\ nCallbacks > 0)
    /\ stopSends' = stopSends + 1
    /\ stopResult' = StopSendResult
    /\ dropChan' = IF StopSendResult = "Ok" THEN dropChan + 1 ELSE dropChan
    /\ panicked' = (panicked \/ IgnoreSendResult(StopSendResult))
    /\ session' = "drop_tx"
    /\ UNCHANGED <<enumVars, groqVars, platform, pc, startResult, enumerated,
                   monitor_device, config, tx, rx, drop_tx, drop_rx, chan,
                   stream, task, buffer, tapLen, nProduced, nCallbacks, cb,
                   cbData, flat, received, eos, errLogged, nativeEnded>>

(* let _ = self.drop_tx.send(()); *)
DropSession ==
    /\ session = "live"
    /\ stopSends' = stopSends + 1
    /\ stopResult' = StopSendResult
    /\ dropChan' = IF StopSendResult = "Ok" THEN dropChan + 1 ELSE dropChan
    /\ panicked' = (panicked \/ IgnoreSendResult(StopSendResult))
    /\ session' = "drop_tx"
    /\ UNCHANGED <<enumVars, groqVars, platform, pc, startResult, enumerated, monitor_device,
                   config, tx, rx, drop_tx, drop_rx, chan, stream, task,
                   buffer, tapLen, nProduced, nCallbacks, cb, cbData, flat,
                   received, eos, errLogged, nativeEnded>>

DropFieldDropTx ==
    /\ session = "drop_tx"
    /\ drop_tx' = "dropped"
    /\ session' = "receiver"
    /\ UNCHANGED <<enumVars, groqVars, platform, pc, startResult, enumerated, monitor_device,
                   config, tx, rx, drop_rx, chan, dropChan, stream, task,
                   buffer, tapLen, nProduced, nCallbacks, cb, cbData, flat,
                   received, eos, stopSends, stopResult, panicked, errLogged,
                   nativeEnded>>

DropFieldReceiver ==
    /\ session = "receiver"
    /\ rx' = "dropped"
    /\ chan' = <<>>
    /\ flat' = <<>>
    /\ session' = IF platform = "linux" THEN "_stream" ELSE "dropped"
    /\ UNCHANGED <<enumVars, groqVars, platform, pc, startResult, enumerated, monitor_device,
                   config, tx, drop_tx, drop_rx, dropChan, stream, task,
                   buffer, tapLen, nProduced, nCallbacks, cb, cbData,
                   received, eos, stopSends, stopResult, panicked, errLogged,
                   nativeEnded>>

(* Dropping the cpal::Stream joins the callback thread and drops the
   callback closure with the tx and drop_rx it captured. *)
DropFieldStream ==
    /\ session = "_stream"
    /\ cb = "idle"
    /\ stream' = "dropped"
    /\ tx' = "dropped"
    /\ drop_rx' = "dropped"
    /\ dropChan' = 0
    /\ session' = "dropped"
    /\ UNCHANGED <<enumVars, groqVars, platform, pc, startResult, enumerated, monitor_device,
                   config, rx, drop_tx, chan, task, buffer, tapLen,
                   nProduced, nCallbacks, cb, cbData, flat, received, eos,
                   stopSends, stopResult, panicked, errLogged, nativeEnded>>

----------------------------------------------------------------------------
Next ==
    \/ MacStart
    \/ LinuxLookup
    \/ LinuxRequireDevice
    \/ LinuxConfig
    \/ LinuxBuild
    \/ LinuxPlay
    \/ LinuxReturn
    \/ OtherStart
    \/ TaskCheck
    \/ TaskNextSome
    \/ TaskNextNone
    \/ CallbackCheck
    \/ CallbackSend
    \/ StreamError
    \/ PollNext
    \/ DropSession
    \/ DropFieldDropTx
    \/ DropFieldReceiver
    \/ DropFieldStream

Spec == Init /\ [][Next]_vars

(* The destructor runs to its end, a callback that was entered returns, the
   forwarding task runs whenever it is not waiting for the tap, and the
   consumer goes on polling the session it holds.  Nothing forces the tap or
   the device to deliver, nor the caller to drop the session. *)
Fairness ==
    /\ WF_vars(DropFieldDropTx)
    /\ WF_vars(DropFieldReceiver)
    /\ WF_vars(DropFieldStream)
    /\ WF_vars(CallbackSend)
    /\ WF_vars(TaskCheck)
    /\ WF_vars(TaskNextNone)
    /\ WF_vars(PollNext)

FairSpec == Spec /\ Fairness

----------------------------------------------------------------------------
(* configure_linux_audio *)

AudioDevice(name, device_type) == [name |-> name, device_type |-> device_type]

(* The display name of a monitor device *)
DisplayName(name) ==
    IF contains(to_lowercase(name), StrAnalog)
    THEN StrBuiltIn
    ELSE name \o StrSystemAudioSuffix

(* The loop over the input devices: devices and monitor_devices are the two
   vectors built so far; returns the pair after the last device. *)
RECURSIVE ClassifyInputs(_, _, _)
ClassifyInputs(devs, devices, monitor_devices) ==
    IF devs = <<>> THEN <<devices, monitor_devices>>
    ELSE LET d == Head(devs) IN
         IF ~d.readable
         THEN ClassifyInputs(Tail(devs), devices, monitor_devices)
         ELSE IF contains(to_lowercase(d.name), StrMonitor)
         THEN ClassifyInputs(Tail(devs), devices,
                  Append(monitor_devices,
                         AudioDevice(DisplayName(d.name), "Output")))
         ELSE ClassifyInputs(Tail(devs),
                  Append(devices, AudioDevice(d.name, "Input")),
                  monitor_devices)

(* Mutant: the monitor devices are put in front of the regular inputs *)
configure_linux_audio_monitors_first(host) ==
    LET lists == IF host.ok THEN ClassifyInputs(host.devices, <<>>, <<>>)
                 ELSE <<<<>>, <<>>>>
    IN lists[2] \o lists[1]

(* devices.extend(monitor_devices) *)
configure_linux_audio(host) ==
    LET lists == IF host.ok THEN ClassifyInputs(host.devices, <<>>, <<>>)
                 ELSE <<<<>>, <<>>>>
    IN lists[1] \o lists[2]

EnumInit ==
    /\ host_inputs \in { [ok |-> TRUE, devices |-> l] : l \in DeviceLists }
                         \cup { [ok |-> FALSE, devices |-> <<>>] }
    /\ audio_devices = <<>>
    /\ epc = "called"

EnumConfigure ==
    /\ epc = "called"
    /\ audio_devices' = configure_linux_audio(host_inputs)
    /\ epc' = "returned"
    /\ UNCHANGED <<capVars, groqVars, host_inputs>>

----------------------------------------------------------------------------
(* samples_to_wav *)

(* Division truncating toward zero *)
TruncDiv(a, b) == IF a >= 0 THEN a \div b ELSE -((-a) \div b)

(* Mutant: the sample is clamped and cast without being scaled *)
QuantizeSampleUnscaled(s) ==
    LET clamped == IF s < I16Min * FloatOne THEN I16Min * FloatOne
                   ELSE IF s > I16Max * FloatOne THEN I16Max * FloatOne
                   ELSE s
    IN TruncDiv(clamped, FloatOne)

(* (sample * 32767.0).clamp(-32768.0, 32767.0) as i16, in exact arithmetic:
   s is a numerator over FloatOne, and so is s * WavScale. *)
QuantizeSample(s) ==
    LET scaled == s * WavScale
        clamped == IF scaled < I16Min * FloatOne THEN I16Min * FloatOne
                   ELSE IF scaled > I16Max * FloatOne THEN I16Max * FloatOne
                   ELSE scaled
    IN TruncDiv(clamped, FloatOne)

(* The WAV: hound's header fields and the 16-bit samples written, in order *)
samples_to_wav(samples, sample_rate) ==
    [ channels |-> 1,
      sample_rate |-> sample_rate,
      bits_per_sample |-> 16,
      data |-> [i \in 1..Len(samples) |-> QuantizeSample(samples[i])] ]

----------------------------------------------------------------------------
(* GroqProvider::transcribe *)

(* Amplitudes of the input samples, as numerators over FloatOne:
   -3/2, just below -1, -1, -1/FloatOne, 0, 1/2, 1 - 1/FloatOne, 1, 3/2 *)
AudioSamples ==
    { -((3 * FloatOne) \div 2), -FloatOne - 3, -FloatOne, -1, 0, FloatOne \div 2,
      FloatOne - 1, FloatOne, (3 * FloatOne) \div 2 }

AudioBatches == UNION { [1..n -> AudioSamples] : n \in 0..MaxBatchLen }

Languages == { <<>>, <<"en">> }

(* self.model *)
GroqModel == "whisper-large-v3"

(* Response bodies: the raw text and what serde makes of it as GroqResponse,
   <<text>> when it is a JSON object with a string field `text`, else <<>> *)
Bodies ==
    { [raw |-> "{\"text\":\"hello\"}", json_text |-> <<"hello">>],
      [raw |-> "{\"text\":\"\"}",      json_text |-> <<"">>],
      [raw |-> "{\"error\":\"x\"}",    json_text |-> <<>>],
      [raw |-> "invalid key",          json_text |-> <<>>] }

Statuses == {200, 204, 401, 500}

(* body_ok: whether reading the body off the connection succeeds *)
Responses == [status : Statuses, body : Bodies, body_ok : BOOLEAN]

(* format!("{}", status) *)
StatusText(status) ==
    CASE status = 200 -> "200 OK"
      [] status = 204 -> "204 No Content"
      [] status = 401 -> "401 Unauthorized"
      [] status = 500 -> "500 Internal Server Error"

(* StatusCode::is_success *)
is_success(status) == status >= 200 /\ status <= 299

EngineFailed(message) ==
    [kind |-> "EngineFailed", message |-> message, text |-> <<>>,
     confidence |-> "n/a", is_partial |-> "n/a"]

TranscriptResult(text) ==
    [kind |-> "Ok", message |-> <<>>, text |-> <<text>>,
     confidence |-> "None", is_partial |-> FALSE]

GroqInit ==
    /\ audio \in AudioBatches
    /\ language \in Languages
    /\ gpc = "called"
    /\ wav = <<>>
    /\ form = <<>>
    /\ requests = 0
    /\ response = <<>>
    /\ result = <<>>

GroqReturn(r) ==
    /\ result' = <<r>>
    /\ gpc' = "returned"

(* samples_to_wav(&audio, 16000).map_err(..)? *)
TranscribeEncode ==
    /\ gpc = "called"
    /\ \E wavOk \in BOOLEAN :
         IF wavOk
         THEN /\ wav' = <<samples_to_wav(audio, WavSampleRate)>>
              /\ gpc' = "encoded"
              /\ UNCHANGED result
         ELSE /\ GroqReturn(EngineFailed(<<"WAV conversion failed">>))
              /\ UNCHANGED wav
    /\ UNCHANGED <<capVars, enumVars, audio, language, form, requests, response>>

(* Part::bytes(..).file_name(..).mime_str(..).map_err(..)?, then the form *)
TranscribeForm ==
    /\ gpc = "encoded"
    /\ \E partOk \in BOOLEAN :
         IF partOk
         THEN /\ form' = << <<"file", "audio.wav">>, <<"model", GroqModel>> >> \o
                         (IF language # <<>>
                          THEN << <<"language", language[1]>> >> ELSE <<>>)
              /\ gpc' = "form"
              /\ UNCHANGED result
         ELSE /\ GroqReturn(EngineFailed(<<"Failed to create audio part">>))
              /\ UNCHANGED form
    /\ UNCHANGED <<capVars, enumVars, audio, language, wav, requests, response>>

(* Mutant: a failed send is tried again, up to three requests *)
TranscribeSendRetry ==
    /\ gpc = "form"
    /\ requests' = requests + 1
    /\ \/ /\ IF requests < 2
             THEN UNCHANGED <<result, gpc>>
             ELSE GroqReturn(EngineFailed(<<"Groq API request failed">>))
          /\ UNCHANGED response
       \/ \E r \in Responses :
            /\ response' = <<r>>
            /\ gpc' = "responded"
            /\ UNCHANGED result
    /\ UNCHANGED <<capVars, enumVars, audio, language, wav, form>>

(* client.post(..).bearer_auth(..).multipart(form).send().await.map_err(..)? *)
TranscribeSend ==
    /\ gpc = "form"
    /\ requests' = requests + 1
    /\ \/ /\ GroqReturn(EngineFailed(<<"Groq API request failed">>))
          /\ UNCHANGED response
       \/ \E r \in Responses :
            /\ response' = <<r>>
            /\ gpc' = "responded"
            /\ UNCHANGED result
    /\ UNCHANGED <<capVars, enumVars, audio, language, wav, form>>

(* response.text().await.unwrap_or_else(|_| "Unknown error".to_string()) *)
ErrorText(r) == IF r.body_ok THEN r.body.raw ELSE "Unknown error"

(* response.json().await: Ok(GroqResponse) or Err *)
ParseJson(r) == IF r.body_ok THEN r.body.json_text ELSE <<>>

(* Mutant: the status is not checked before the body is parsed *)
HandleResponseNoStatusCheck(r) ==
    IF ParseJson(r) = <<>>
    THEN EngineFailed(<<"Failed to parse Groq response">>)
    ELSE TranscriptResult(ParseJson(r)[1])

(* The status check, then the body as JSON *)
HandleResponse(r) ==
    IF ~is_success(r.status)
    THEN EngineFailed(<<"Groq API error ", StatusText(r.status), ": ", ErrorText(r)>>)
    ELSE IF ParseJson(r) = <<>>
    THEN EngineFailed(<<"Failed to parse Groq response">>)
    ELSE TranscriptResult(ParseJson(r)[1])

TranscribeRespond ==
    /\ gpc = "responded"
    /\ GroqReturn(HandleResponse(response[1]))
    /\ UNCHANGED <<capVars, enumVars, audio, language, wav, form, requests,
                   response>>

----------------------------------------------------------------------------
(* Specifications *)

CapIdle ==
    /\ platform = "other"
    /\ pc = "Idle"
    /\ startResult = "none"
    /\ enumerated = <<>>
    /\ monitor_device = <<>>
    /\ config = "none"
    /\ tx = "none" /\ rx = "none" /\ drop_tx = "none" /\ drop_rx = "none"
    /\ chan = <<>>
    /\ dropChan = 0
    /\ stream = "none"
    /\ session = "none"
    /\ task = "none"
    /\ buffer = <<>>
    /\ tapLen = 0
    /\ nProduced = 0
    /\ nCallbacks = 0
    /\ cb = "idle"
    /\ cbData = <<>>
    /\ flat = <<>>
    /\ received = <<>>
    /\ eos = FALSE
    /\ stopSends = 0
    /\ stopResult = "none"
    /\ panicked = FALSE
    /\ errLogged = 0
    /\ nativeEnded = FALSE

(* configure_linux_audio alone *)
InitEnum == CapIdle /\ GroqIdle /\ EnumInit
NextEnum == EnumConfigure
SpecEnum == InitEnum /\ [][NextEnum]_vars

(* transcribe alone *)
InitGroq == CapIdle /\ EnumIdle /\ GroqInit
NextGroq ==
    \/ TranscribeEncode
    \/ TranscribeForm
    \/ TranscribeSend
    \/ TranscribeRespond
SpecGroq == InitGroq /\ [][NextGroq]_vars

(* The data callback of a running Linux stream alone: it has been entered
   with any slice of native samples of the negotiated format, has passed the
   stop check, and converts and sends.  Slices of one sample cover the whole
   range of the format; longer slices are made of its extreme and middle
   values. *)
NativeRange(fmt) ==
    CASE fmt = "I16" -> (-32768)..32767
      [] fmt = "U16" -> 0..65535
      [] fmt = "F32" -> AudioSamples

NativeBoundary(fmt) ==
    CASE fmt = "I16" -> {-32768, 0, 32767}
      [] fmt = "U16" -> {0, 32768, 65535}
      [] fmt = "F32" -> {-FloatOne, 0, FloatOne}

NativeChunks(fmt) ==
    [1..1 -> NativeRange(fmt)]
      \cup UNION { [1..n -> NativeBoundary(fmt)] : n \in 2..MaxChunkLen }

InitConv ==
    /\ EnumIdle /\ GroqIdle
    /\ platform = "linux"
    /\ pc = "Done"
    /\ startResult = "Ok"
    /\ enumerated = <<>>
    /\ monitor_device = <<>>
    /\ config \in {"F32", "I16", "U16"}
    /\ tx = "alive" /\ rx = "alive" /\ drop_tx = "alive" /\ drop_rx = "alive"
    /\ chan = <<>>
    /\ dropChan = 0
    /\ stream = "playing"
    /\ session = "live"
    /\ task = "none"
    /\ buffer = <<>>
    /\ tapLen = 0
    /\ cbData \in NativeChunks(config)
    /\ nProduced = Len(cbData)
    /\ nCallbacks = 1
    /\ cb = "send"
    /\ flat = <<>>
    /\ received = <<>>
    /\ eos = FALSE
    /\ stopSends = 0
    /\ stopResult = "none"
    /\ panicked = FALSE
    /\ errLogged = 0
    /\ nativeEnded = FALSE

NextConv == CallbackSend
SpecConv == InitConv /\ [][NextConv]_vars

----------------------------------------------------------------------------
(* Claims about the capture session *)

(* The i-th sample the consumer is due: what the native side produced as
   its i-th sample, in the consumer's f32 format *)
Delivered(i) ==
    IF platform = "macos" THEN TapSample(i)
    ELSE ConvertSample(config, NativeSample(config, i))

(* C1: in both backends, what the consumer has received from the session
   is at all times a prefix of what the native backend produced: nothing is
   reordered, duplicated or interleaved across batches. *)
OrderPreserved ==
    /\ Len(received) <= nProduced
    /\ \A i \in 1..Len(received) : received[i] = Delivered(i)

(* The consumer has read past the first full chunk into the trailing one *)
OrderWitness ==
    /\ platform = "macos"
    /\ Len(received) = chunk_size + 1

(* Once the receiver is gone nothing is delivered any more, and on Linux the
   native stream and its callbacks are gone too *)
ProducerStopped ==
    /\ rx = "dropped"
    /\ chan = <<>>
    /\ platform = "linux" => (stream = "dropped" /\ cb = "idle")

(* C2: dropping the session at any point never panics; after the stop
   signal the forwarding task does not start another pull from the tap, and
   the drop leads to the producing side having stopped delivering for good. *)
DropStopsProducer ==
    /\ [](~panicked)
    /\ [][(stopSends >= 1 /\ task = "check") => task' # "await"]_vars
    /\ (session = "drop_tx") ~> [](ProducerStopped)

(* A session dropped while samples were still in flight *)
DropWitness ==
    /\ session = "dropped"
    /\ nProduced > Len(received)
    /\ stopResult = "Ok"

(* C3: the stop signal is sent zero times while the session exists and
   exactly once by its destruction; the send needs nothing from the backend
   (it is possible whatever the task or callback is doing), and the
   destruction goes on without the signal having been received. *)
StopSignalOnce ==
    /\ session \in {"none", "live"} => stopSends = 0
    /\ session \notin {"none", "live"} => stopSends = 1
    /\ session = "live" => ENABLED DropSession
    /\ session = "drop_tx" => ENABLED DropFieldDropTx

(* The signal was sent and the destruction went on while it is unreceived *)
FireAndForgetWitness ==
    /\ stopSends = 1
    /\ session = "receiver"
    /\ dropChan = 1

(* The backend's native stream has ended: the tap has yielded its last
   sample, or the monitor device has failed for good *)
BackendEnded ==
    IF platform = "macos" THEN task # "none" /\ nProduced = tapLen
    ELSE nativeEnded

(* C4: while the session is not dropped, the end of the backend's native
   stream leads to the consumer seeing end-of-stream, after which no item
   is produced; and end-of-stream is never reported before the backend has
   ended or the session was dropped. *)
NativeEndTerminates ==
    /\ []((BackendEnded /\ session = "live") => <>(eos \/ session # "live"))
    /\ [][eos => received' = received]_vars
    /\ [](eos => (BackendEnded \/ session # "live"))

(* C5: on Linux a mid-stream error reported by the native stream is logged
   and leads to the consumer seeing end-of-stream; no error is returned. *)
ErrorTerminatesStream ==
    /\ []((platform = "linux" /\ errLogged > 0 /\ session = "live")
            => <>(eos \/ session # "live"))
    /\ [](errLogged > 0 => startResult \in {"none", "Ok"})

(* A readable name that contains `sub`, letter case ignored *)
ContainsIgnoringCase(name, sub) ==
    \E i \in 0..(Len(name) - Len(sub)) :
        \A j \in 1..Len(sub) : ToLowerChar(name[i + j]) = sub[j]

NameHasMonitor(d) == d.readable /\ ContainsIgnoringCase(d.name, StrMonitor)

NoMonitorEnumerated ==
    \A i \in 1..Len(enumerated) : ~NameHasMonitor(enumerated[i])

NothingSetUp ==
    /\ config = "none"
    /\ tx = "none" /\ rx = "none" /\ drop_tx = "none" /\ drop_rx = "none"
    /\ stream = "none"
    /\ session = "none"
    /\ nCallbacks = 0

(* C6: on Linux, when no enumerated input device has a name containing
   "monitor" (case-insensitive), start_system_audio_capture fails with
   NoMonitorDeviceFound and nothing was set up: no configuration, no
   channel, no native stream, no session. *)
NoMonitorFailsClean ==
    /\ [][(pc = "looked_up" /\ NoMonitorEnumerated)
            => (pc' = "Done" /\ startResult' = "NoMonitorDeviceFound"
                /\ NothingSetUp')]_vars
    /\ [](startResult = "NoMonitorDeviceFound"
            => (NothingSetUp /\ NoMonitorEnumerated))

(* The lookup went through a full list of devices and found no monitor *)
NoMonitorWitness ==
    /\ startResult = "NoMonitorDeviceFound"
    /\ Len(enumerated) = MaxDevices
    /\ enumerated[1] = Device(NameUsbMic)

----------------------------------------------------------------------------
(* Claims about configure_linux_audio *)

Readable(devs) == SelectSeq(devs, LAMBDA d : d.readable)

MapSeq(Op(_), q) == [i \in 1..Len(q) |-> Op(q[i])]

InputEntry(d) == [name |-> d.name, device_type |-> "Input"]

OutputEntry(d) ==
    [name |-> IF ContainsIgnoringCase(d.name, StrAnalog) THEN StrBuiltIn
              ELSE d.name \o StrSystemAudioSuffix,
     device_type |-> "Output"]

(* C7: configure_linux_audio returns one entry per device with a readable
   name: first the non-monitor devices, in enumeration order, unchanged and
   of type Input; then the monitor devices, in enumeration order, of type
   Output and labelled "Built-in Audio (System Audio)" when the name also
   contains "analog", else "<name> (System Audio)".  No Input entry follows
   an Output entry. *)
EnumerationPartitioned ==
    epc = "returned" =>
      LET named == Readable(host_inputs.devices)
          inputs == SelectSeq(named, LAMBDA d : ~NameHasMonitor(d))
          monitors == SelectSeq(named, LAMBDA d : NameHasMonitor(d))
      IN /\ Len(audio_devices) = Len(named)
         /\ audio_devices = MapSeq(InputEntry, inputs) \o MapSeq(OutputEntry, monitors)
         /\ \A i, j \in 1..Len(audio_devices) :
              (i < j /\ audio_devices[i].device_type = "Output")
                 => audio_devices[j].device_type = "Output"

(* A monitor enumerated before a microphone is listed after it *)
EnumerationWitness ==
    /\ epc = "returned"
    /\ Len(host_inputs.devices) = 3
    /\ host_inputs.devices[1] = Device(NameUpperAnalogMon)
    /\ host_inputs.devices[2] = Device(NameUsbMic)
    /\ host_inputs.devices[3] = Device(NameLoopMon)
    /\ audio_devices[1].device_type = "Input"
    /\ audio_devices[2].name = StrBuiltIn

----------------------------------------------------------------------------
(* Claims about transcribe *)

Returned == gpc = "returned"

AllStepsSucceeded ==
    /\ wav # <<>>
    /\ form # <<>>
    /\ response # <<>>
    /\ is_success(response[1].status)
    /\ response[1].body_ok
    /\ response[1].body.json_text # <<>>

InMessage(part) ==
    \E i \in 1..Len(result[1].message) : result[1].message[i] = part

OkOnlyWhenAllSucceeded ==
    /\ (result[1].kind = "Ok") <=> AllStepsSucceeded
    /\ result[1].kind = "Ok" => result[1].text = response[1].body.json_text
    /\ result[1].kind # "Ok" =>
          (result[1].kind = "EngineFailed" /\ result[1].text = <<>>)

(* C8 as claimed: a transcript is returned only when every step succeeded,
   otherwise EngineFailed and no transcript; for a non-success status the
   message carries the status and the response body. *)
TranscribeAllOrNothing ==
    Returned =>
      /\ OkOnlyWhenAllSucceeded
      /\ (response # <<>> /\ ~is_success(response[1].status)) =>
            (/\ InMessage(StatusText(response[1].status))
             /\ InMessage(response[1].body.raw))

(* C8 as amended: ... for a non-success status the message carries the
   status and the response body, or "Unknown error" in place of the body
   when the body could not be read. *)
TranscribeAllOrNothingAmended ==
    Returned =>
      /\ OkOnlyWhenAllSucceeded
      /\ (response # <<>> /\ ~is_success(response[1].status)) =>
            (/\ InMessage(StatusText(response[1].status))
             /\ InMessage(IF response[1].body_ok THEN response[1].body.raw
                          ELSE "Unknown error"))

(* A 401 whose body could not be read *)
UnreadableErrorBodyWitness ==
    /\ Returned
    /\ response # <<>>
    /\ response[1].status = 401
    /\ ~response[1].body_ok
    /\ result[1].kind = "EngineFailed"

(* C9: a call sends at most one HTTP request whatever the outcome, none
   when WAV encoding or the multipart part failed, and every transcript it
   returns has is_partial = false and no confidence. *)
SingleShot ==
    /\ requests <= 1
    /\ (Returned /\ (wav = <<>> \/ form = <<>>)) => requests = 0
    /\ (Returned /\ form # <<>>) => requests = 1
    /\ (Returned /\ result[1].kind = "Ok") =>
          (result[1].is_partial = FALSE /\ result[1].confidence = "None")

(* The send failed and the call returned after that one request *)
SendFailedWitness ==
    /\ Returned
    /\ form # <<>>
    /\ response = <<>>
    /\ requests = 1
    /\ result[1].kind = "EngineFailed"

Abs(x) == IF x < 0 THEN -x ELSE x

(* Decoding gives the amplitude q / WavScale.  The distance between the
   amplitudes s / FloatOne and q / WavScale is at most 1 / WavScale *)
WithinQuantum(s, q) == Abs(s * WavScale - q * FloatOne) <= FloatOne

(* C10 as claimed: for every batch, encoding and decoding gives as many
   samples in the same order, each within 1/32767 of the original. *)
RoundTripAll ==
    wav # <<>> =>
      /\ Len(wav[1].data) = Len(audio)
      /\ \A i \in 1..Len(audio) : WithinQuantum(audio[i], wav[1].data[i])

(* C10 as amended: for every batch, encoding and decoding gives as many
   samples in the same order, and each sample whose amplitude lies in
   [-1, 1] is within 1/32767 of the original. *)
RoundTripInRange ==
    wav # <<>> =>
      /\ Len(wav[1].data) = Len(audio)
      /\ \A i \in 1..Len(audio) :
           (-FloatOne <= audio[i] /\ audio[i] <= FloatOne)
              => WithinQuantum(audio[i], wav[1].data[i])

(* A batch of two different in-range samples was encoded *)
RoundTripWitness ==
    /\ wav # <<>>
    /\ audio = <<-FloatOne, FloatOne - 1>>
    /\ wav[1].data = <<-WavScale, WavScale - 1>>

----------------------------------------------------------------------------
(* Claims about the stop signal and the producers *)

(* The stop signal has been sent by the session's destruction *)
SignalSent == stopSends >= 1

(* A data callback is entered in this step *)
CallbackEntered == nCallbacks' = nCallbacks + 1

(* C11: on Linux, once the stop signal has been sent, every data callback
   that is entered afterwards does nothing: neither the first nor any later
   one goes on to convert its batch or to enqueue it on the channel. *)
StoppedCallbacksDoNothing ==
    [][(platform = "linux" /\ SignalSent /\ CallbackEntered)
          => (cb' = "idle" /\ cbData' = <<>> /\ chan' = chan)]_vars

(* C12: the drop is observed within one cycle.  On macOS the task does not
   wait for the tap again once it has checked after the signal, and it
   leaves its loop without the tap having to deliver anything further; on
   Linux the first callback entered after the signal observes it. *)
SignalObservedWithinOneCycle ==
    /\ [][(platform = "macos" /\ SignalSent /\ task = "check")
            => task' \in {"check", "done"}]_vars
    /\ [][(platform = "linux" /\ dropChan > 0 /\ CallbackEntered)
            => (dropChan' = 0 /\ cb' = "idle")]_vars
    /\ (platform = "macos" /\ SignalSent /\ stopResult = "Ok")
          ~> (task = "done")

(* A step of the producing side: a callback finishes, or the forwarding
   task moves *)
CallbackReturns == cb = "send" /\ cb' = "idle"
TaskPulls == task = "await" /\ nProduced' = nProduced + 1

(* C13: the producer never blocks on the sample channel.  Whatever is
   queued and however long the consumer has not polled, a callback that
   passed the stop check and a forwarding task that has an item can take
   their step, and while the receiver exists the send puts the chunk behind
   everything that is queued: nothing queued is discarded or replaced. *)
ProducerNeverBlocks ==
    /\ [](cb = "send" => ENABLED CallbackSend)
    /\ []((task = "await" /\ nProduced < tapLen) => ENABLED TaskNextSome)
    /\ [](task = "check" => ENABLED TaskCheck)
    /\ [][(CallbackReturns /\ rx = "alive")
            => chan' = Append(chan, ConvertChunk(config, cbData))]_vars
    /\ [][(TaskPulls /\ rx = "alive")
            => IF Len(buffer) + 1 >= chunk_size
               THEN chan' = Append(chan, Append(buffer, TapSample(nProduced')))
               ELSE chan' = chan]_vars
    /\ [][(task # "done" /\ task' = "done" /\ rx = "alive" /\ ~TaskPulls)
            => chan' = (IF buffer = <<>> THEN chan ELSE Append(chan, buffer))]_vars

(* Chunks pile up behind a consumer that has not polled yet *)
QueueGrowsWitness ==
    /\ platform = "linux"
    /\ session = "live"
    /\ Len(chan) >= 3
    /\ received = <<>>
    /\ cb = "idle"

----------------------------------------------------------------------------
(* Claims about the re-batching of the macOS forwarding task *)

RECURSIVE Flatten(_)
Flatten(q) == IF q = <<>> THEN <<>> ELSE Head(q) \o Flatten(Tail(q))

(* The samples the tap has yielded so far, in order *)
Pulled == [i \in 1..nProduced |-> TapSample(i)]

(* A chunk is put on the channel in this step *)
ChunkSent == Len(chan') = Len(chan) + 1

(* C14: on macOS the task's buffer never holds more than 1024 samples; a
   chunk sent while the task goes on has exactly 1024 samples, and the one
   chunk sent when the task ends (the source ended or the stop signal was
   observed) is non-empty and shorter than 1024; no empty chunk is sent; and
   as long as the receiver exists every sample pulled from the tap is in
   exactly one place: received, queued in one chunk, or still buffered, and
   none is left in the buffer when the task has ended. *)
BatchingExact ==
    /\ [](Len(buffer) <= chunk_size)
    /\ [][(platform = "macos" /\ ChunkSent)
            => LET c == chan'[Len(chan')] IN
               /\ c # <<>>
               /\ IF task' = "done"
                  THEN task # "done" /\ Len(c) < chunk_size
                  ELSE Len(c) = chunk_size]_vars
    /\ []((platform = "macos" /\ rx = "alive")
            => received \o flat \o Flatten(chan) \o buffer = Pulled)
    /\ [](task = "done" => buffer = <<>>)

(* The tap ended one sample after a full chunk: a full chunk and the
   trailing chunk of one sample are queued *)
TrailingChunkWitness ==
    /\ platform = "macos"
    /\ task = "done"
    /\ rx = "alive"
    /\ Len(chan) = 2
    /\ Len(chan[1]) = chunk_size
    /\ Len(chan[2]) = 1

----------------------------------------------------------------------------
(* Claims about the lifecycle of a capture session *)

(* Idle (0): start_system_audio_capture not yet called.  Negotiating (1):
   inside the call.  Streaming (2): the session was returned and exists.
   Stopped (3): the session is being or has been destroyed, or the call
   failed. *)
Phase ==
    IF pc = "Idle" THEN 0
    ELSE IF pc # "Done" THEN 1
    ELSE IF session = "live" THEN 2
    ELSE 3

(* C15: the lifecycle only moves forward through Idle, Negotiating,
   Streaming, Stopped, so no state is entered twice; a session comes into
   existence only with the call returning Ok after the native stream was
   started; once its destruction has begun the consumer receives nothing
   more, and once it is destroyed it stays destroyed and nothing is put on
   its channel again. *)
LifecycleForward ==
    /\ [][Phase' >= Phase]_vars
    /\ [][(session # "live" /\ session' = "live")
            => (/\ session = "none" /\ Phase \in {0, 1}
                /\ stream' = "playing" /\ startResult' = "Ok")]_vars
    /\ [](session # "none" => (pc = "Done" /\ startResult = "Ok"))
    /\ [][Phase = 3 => received' = received]_vars
    /\ [][session = "dropped"
            => (session' = "dropped" /\ chan' = <<>> /\ flat' = <<>>)]_vars

(* A Linux session that streamed samples to the consumer and was destroyed *)
LifecycleWitness ==
    /\ platform = "linux"
    /\ session = "dropped"
    /\ Len(received) >= 2
    /\ stream = "dropped"

(* The session exists: it was returned and its destruction is not complete *)
SessionExists == session \in {"live", "drop_tx", "receiver", "_stream"}

(* C16: on Linux every existing session owns its native stream, which is
   alive (playing) in every state in which the session exists; the stream
   is released only by the session's destruction, as its last step, after
   the stop signal has been sent; and a released stream never comes back. *)
StreamKeptAlive ==
    /\ []((platform = "linux" /\ SessionExists) => stream = "playing")
    /\ [][(platform = "linux" /\ stream = "playing" /\ stream' # "playing")
            => (/\ session = "_stream" /\ session' = "dropped"
                /\ stopSends = 1
                /\ stream' = "dropped")]_vars
    /\ [][stream = "dropped" => stream' = "dropped"]_vars

(* The stream is still playing while the destructor has sent the signal and
   dropped the receiver *)
StreamKeptWitness ==
    /\ platform = "linux"
    /\ session = "_stream"
    /\ stream = "playing"
    /\ rx = "dropped"
    /\ nCallbacks >= 1

----------------------------------------------------------------------------
(* Claims about the Linux start: lookup, conversion, failure paths *)

(* Position of the earliest enumerated device whose name contains "monitor" *)
EarliestMonitor ==
    CHOOSE i \in 1..Len(enumerated) :
        /\ NameHasMonitor(enumerated[i])
        /\ \A j \in 1..(i - 1) : ~NameHasMonitor(enumerated[j])

(* C17: on Linux, when the enumerated list holds at least one device whose
   lower-cased name contains "monitor", the device used for capture is the
   earliest such device: unreadable devices before it are skipped, later
   monitors are not selected, and the selection is not changed afterwards
   while the stream is being set up. *)
FirstMonitorSelected ==
    /\ []((pc = "looked_up" /\ ~NoMonitorEnumerated)
            => monitor_device = <<enumerated[EarliestMonitor]>>)
    /\ [][(pc \in {"looked_up", "have_device", "negotiated", "built"}
           /\ monitor_device # <<>> /\ pc' # "Done")
            => monitor_device' = monitor_device]_vars

(* An unreadable device and two monitors: the first monitor is selected *)
FirstMonitorWitness ==
    /\ pc = "looked_up"
    /\ enumerated = <<UnreadableDevice, Device(NameUpperMon), Device(NameLoopMon)>>
    /\ monitor_device = <<Device(NameUpperMon)>>

(* C18: on Linux the callback converts its slice element by element, so
   the chunk it enqueues has the slice's length and order: an unsigned
   16-bit s becomes (s - 32768) / 32768, which lies in [-1, 1) (0 gives -1,
   32768 gives 0, 65535 gives 32767/32768), a signed 16-bit s becomes
   s / 32768, and a 32-bit float is passed through unchanged. *)
ConversionByFormat ==
    [][(CallbackReturns /\ rx = "alive") =>
         /\ Len(chan') = Len(chan) + 1
         /\ LET out == chan'[Len(chan')] IN
            /\ Len(out) = Len(cbData)
            /\ \A j \in 1..Len(cbData) :
                 CASE config = "U16" ->
                        /\ out[j] * 32768 = (cbData[j] - 32768) * FloatOne
                        /\ -FloatOne <= out[j] /\ out[j] < FloatOne
                        /\ cbData[j] = 0 => out[j] = -FloatOne
                        /\ cbData[j] = 32768 => out[j] = 0
                        /\ cbData[j] = 65535 => out[j] * 32768 = 32767 * FloatOne
                   [] config = "I16" ->
                        out[j] * 32768 = cbData[j] * FloatOne
                   [] config = "F32" ->
                        out[j] = cbData[j]]_vars

(* The unsigned slice <<0, 65535>> was converted to <<-1, 32767/32768>> *)
ConversionWitness ==
    /\ config = "U16"
    /\ cb = "idle"
    /\ chan = << <<-FloatOne, FloatOne - 1>> >>

StartErrors ==
    {"CoreAudioError", "NoMonitorDeviceFound", "DeviceConfigError",
     "UnsupportedSampleFormat", "StreamBuildError", "StreamStartError",
     "PlatformUnsupported"}

Gone(x) == x \in {"none", "dropped"}

(* C19: on every failure path of start_system_audio_capture no session is
   returned and nothing stays active: the native stream, if one was built,
   is released with the error (a stream that failed to start included), the
   channels are gone, no forwarding task and no callback runs, and nothing
   happens afterwards. *)
FailureLeavesNothing ==
    /\ [](startResult \notin {"none", "Ok"} =>
            /\ startResult \in StartErrors
            /\ pc = "Done"
            /\ session = "none"
            /\ Gone(stream)
            /\ Gone(tx) /\ Gone(rx) /\ Gone(drop_tx) /\ Gone(drop_rx)
            /\ task = "none"
            /\ cb = "idle" /\ nCallbacks = 0
            /\ chan = <<>> /\ received = <<>>)
    /\ [](startResult \in {"StreamStartError"} => stream = "dropped")
    /\ [][startResult \notin {"none", "Ok"} => UNCHANGED capVars]_vars

(* stream.play() failed: the stream that had been built is released *)
StartFailedWitness ==
    /\ startResult = "StreamStartError"
    /\ stream = "dropped"
    /\ tx = "dropped"
    /\ config = "I16"

----------------------------------------------------------------------------
(* Claim about the labels of configure_linux_audio *)

(* The enumerated devices with a readable name have pairwise distinct names *)
NamesDistinct ==
    LET named == Readable(host_inputs.devices) IN
    \A i, j \in 1..Len(named) : i # j => named[i].name # named[j].name

(* C20: configure_linux_audio keeps devices distinguishable: when the
   enumerated device names are pairwise distinct, the (name, type) entries
   of the returned list are pairwise distinct too. *)
EntriesDistinguishable ==
    (epc = "returned" /\ NamesDistinct) =>
        \A i, j \in 1..Len(audio_devices) :
            i # j => audio_devices[i] # audio_devices[j]

====
